---- MODULE Spec2Model ----
(***************************************************************************)
(* Painel-Trello: the Trello client (src/src/main.py and its refactoring   *)
(* src/src/Trello.py), the manage_request wrapper around every request,    *)
(* save_json, and the driver main().                                       *)
(*                                                                         *)
(* Library behaviour the code relies on is modelled as the libraries       *)
(* define it (requests >= 2.27, CPython json, http.client):                *)
(*   - Response.raise_for_status() raises HTTPError for 400 <= status      *)
(*     < 600 and for nothing else;                                         *)
(*   - Response.json() raises requests.exceptions.JSONDecodeError, a       *)
(*     subclass of both RequestException and json.JSONDecodeError;         *)
(*   - requests.get raises only RequestException subclasses;               *)
(*   - open() raises OSError (IOError), json.dump raises TypeError for a   *)
(*     value that is not JSON-serialisable, and writing a lone surrogate   *)
(*     to a UTF-8 file raises UnicodeEncodeError (a ValueError).           *)
(***************************************************************************)
EXTENDS Integers, Sequences, FiniteSets, TLC

(***************************************************************************)
(* Python values, tagged by type.  A dict is its sequence of items, in     *)
(* insertion order.  "set" is a Python object json cannot serialise.       *)
(***************************************************************************)
PyNone == [t |-> "None", v |-> <<>>]
PyBool(b) == [t |-> "bool", v |-> b]
PyStr(s) == [t |-> "str", v |-> s]
PyList(xs) == [t |-> "list", v |-> xs]
PyDict(items) == [t |-> "dict", v |-> items]
PySet == [t |-> "set", v |-> <<>>]
Item(k, x) == [key |-> k, val |-> x]

\* bool(x), as `if x:` evaluates it.
Truthy(x) ==
    CASE x.t = "None" -> FALSE
      [] x.t = "bool" -> x.v
      [] x.t = "str"  -> x.v # ""
      [] x.t = "list" -> x.v # <<>>
      [] x.t = "dict" -> x.v # <<>>
      [] OTHER        -> TRUE

\* A string holding a lone surrogate: JSON text "\ud800" decodes to it.
Surrogate == "\\ud800"

(***************************************************************************)
(* JSON text, as a sequence of tokens.                                     *)
(***************************************************************************)
Tok(k) == [k |-> k, s |-> ""]
StrTok(s) == [k |-> "str", s |-> s]

RECURSIVE JsonDumps(_)
RECURSIVE DumpElems(_, _)
RECURSIVE DumpItems(_, _)

DumpElems(xs, i) ==
    IF i > Len(xs) THEN <<>>
    ELSE (IF i > 1 THEN <<Tok(",")>> ELSE <<>>) \o JsonDumps(xs[i]) \o DumpElems(xs, i + 1)

DumpItems(items, i) ==
    IF i > Len(items) THEN <<>>
    ELSE (IF i > 1 THEN <<Tok(",")>> ELSE <<>>)
         \o <<StrTok(items[i].key), Tok(":")>> \o JsonDumps(items[i].val)
         \o DumpItems(items, i + 1)

\* json.dump(data, file, ensure_ascii=False, indent=4): the text of a value.
JsonDumps(x) ==
    CASE x.t = "None" -> <<Tok("null")>>
      [] x.t = "bool" -> <<Tok(IF x.v THEN "true" ELSE "false")>>
      [] x.t = "str"  -> <<StrTok(x.v)>>
      [] x.t = "list" -> <<Tok("[")>> \o DumpElems(x.v, 1) \o <<Tok("]")>>
      [] x.t = "dict" -> <<Tok("{")>> \o DumpItems(x.v, 1) \o <<Tok("}")>>

RECURSIVE Serialisable(_)
\* Whether json.dump accepts the value (else TypeError).
Serialisable(x) ==
    CASE x.t \in {"None", "bool", "str"} -> TRUE
      [] x.t = "list" -> \A i \in 1..Len(x.v) : Serialisable(x.v[i])
      [] x.t = "dict" -> \A i \in 1..Len(x.v) : Serialisable(x.v[i].val)
      [] OTHER -> FALSE

\* Whether the text encodes to UTF-8 (else UnicodeEncodeError on write).
Utf8Encodable(toks) == \A i \in 1..Len(toks) : toks[i].s # Surrogate

ParseOk(x, rest) == [ok |-> TRUE, val |-> x, rest |-> rest]
ParseFail == [ok |-> FALSE, val |-> PyNone, rest |-> <<>>]

\* d[k] = x on a dict's items: a repeated key keeps its place, last value wins.
DictSet(items, k, x) ==
    IF \E i \in 1..Len(items) : items[i].key = k
    THEN [i \in 1..Len(items) |-> IF items[i].key = k THEN Item(k, x) ELSE items[i]]
    ELSE Append(items, Item(k, x))

RECURSIVE ParseValue(_)
RECURSIVE ParseElems(_, _)
RECURSIVE ParseMembers(_, _)

ParseElems(ts, acc) ==
    LET e == ParseValue(ts) IN
    IF ~e.ok \/ e.rest = <<>> THEN ParseFail
    ELSE IF Head(e.rest).k = "," THEN ParseElems(Tail(e.rest), Append(acc, e.val))
    ELSE IF Head(e.rest).k = "]" THEN ParseOk(PyList(Append(acc, e.val)), Tail(e.rest))
    ELSE ParseFail

ParseMembers(ts, acc) ==
    IF Len(ts) < 2 \/ ts[1].k # "str" \/ ts[2].k # ":" THEN ParseFail
    ELSE LET e == ParseValue(SubSeq(ts, 3, Len(ts))) IN
         IF ~e.ok \/ e.rest = <<>> THEN ParseFail
         ELSE IF Head(e.rest).k = ","
              THEN ParseMembers(Tail(e.rest), DictSet(acc, ts[1].s, e.val))
         ELSE IF Head(e.rest).k = "}"
              THEN ParseOk(PyDict(DictSet(acc, ts[1].s, e.val)), Tail(e.rest))
         ELSE ParseFail

ParseValue(ts) ==
    IF ts = <<>> THEN ParseFail
    ELSE LET h == Head(ts)
             r == Tail(ts)
         IN CASE h.k = "null"  -> ParseOk(PyNone, r)
              [] h.k = "true"  -> ParseOk(PyBool(TRUE), r)
              [] h.k = "false" -> ParseOk(PyBool(FALSE), r)
              [] h.k = "str"   -> ParseOk(PyStr(h.s), r)
              [] h.k = "["     -> IF r # <<>> /\ Head(r).k = "]"
                                  THEN ParseOk(PyList(<<>>), Tail(r))
                                  ELSE ParseElems(r, <<>>)
              [] h.k = "{"     -> IF r # <<>> /\ Head(r).k = "}"
                                  THEN ParseOk(PyDict(<<>>), Tail(r))
                                  ELSE ParseMembers(r, <<>>)
              [] OTHER         -> ParseFail

\* json.loads: the whole text must be one value.
JsonLoads(ts) ==
    LET p == ParseValue(ts) IN
    IF p.ok /\ p.rest = <<>> THEN [ok |-> TRUE, val |-> p.val]
    ELSE [ok |-> FALSE, val |-> PyNone]


(***************************************************************************)
(* Exceptions, by class name, and the classes each is an instance of.      *)
(***************************************************************************)
NoExc == "none"

Mro(e) ==
    CASE e = "ConnectionError" -> {"ConnectionError", "RequestException", "OSError"}
      [] e = "Timeout"         -> {"Timeout", "RequestException", "OSError"}
      [] e = "HTTPError"       -> {"HTTPError", "RequestException", "OSError"}
      [] e = "RequestsJSONDecodeError" ->
             {"RequestsJSONDecodeError", "InvalidJSONError", "RequestException",
              "OSError", "JSONDecodeError", "ValueError"}
      [] e = "UnicodeEncodeError" -> {"UnicodeEncodeError", "UnicodeError", "ValueError"}
      [] OTHER -> {e}

IsInstance(e, class) == class \in Mro(e)

(***************************************************************************)
(* Bounds and the inputs the environment draws from.                       *)
(***************************************************************************)
MaxCalls == 2
MaxBoards == 2

Modules == {"main", "Trello"}

\* os.getenv: the variable's value, or None when it is not set.
Unset == "<None>"
Environments == {[key |-> "envkey", token |-> "envtok"], [key |-> Unset, token |-> Unset]}
Credentials == {[key |-> "k1", token |-> "t1"], [key |-> "k2", token |-> "t2"]}

BoardIdSeq == <<"b1", "b2", "b3", "b4">>
BoardIds == {"b1"}
Board(id, name) == PyDict(<<Item("id", PyStr(id)), Item("name", PyStr(name))>>)
BoardsList(n) == PyList([i \in 1..n |-> Board(BoardIdSeq[i], "Demo")])

\* What the remote side may send as a body: a board, a list of boards or
\* cards (possibly empty), null, an empty object, a name with a lone
\* surrogate; or text that is not JSON (empty, an HTML page, truncated).
RemoteValues ==
    {PyNone, PyDict(<<>>), Board("b1", "Demo"), Board("b1", Surrogate)}
    \cup {BoardsList(n) : n \in 0..MaxBoards}
MalformedBodies == {<<>>, <<Tok("<html>")>>, <<Tok("["), Tok("{")>>}
Bodies == {JsonDumps(x) : x \in RemoteValues} \cup MalformedBodies
Statuses == {200, 399, 400, 401, 404, 599, 600}
Faults == {"ConnectionError", "Timeout"}

Fault(e) == [kind |-> "fault", exc |-> e, status |-> 0, body |-> <<>>]
Resp(s, b) == [kind |-> "response", exc |-> NoExc, status |-> s, body |-> b]
NoOutcome == [kind |-> "none", exc |-> NoExc, status |-> 0, body |-> <<>>]
Outcomes == {Fault(e) : e \in Faults} \cup {Resp(s, b) : s \in Statuses, b \in Bodies}

\* What a caller may hand to save_json, and where.
Nul == "\\0"
UserData == {Board("b1", "Demo"), Board("b1", Surrogate), PySet}
UserPaths == {<<"out.json">>, <<"out", Nul, ".json">>}
FsStates == {"ok", "denied", "full"}

VARIABLES
    module,         \* which source file is the program: main.py or Trello.py
    API_KEY,        \* module-level API_KEY = os.getenv("API_KEY")
    API_TOKEN,      \* module-level API_TOKEN = os.getenv("API_TOKEN")
    my_trello,      \* the Trello object: <<>> before construction, <<object>> after
    pc,             \* where the caller is
    retpc,          \* where the caller continues when the pending operation returns
    op,             \* the retrieval operation last invoked: [name, id]
    sent,           \* every request the request action has issued, in order
    completed,      \* how many of them have been answered (or have failed)
    calls,          \* retrieval operations invoked
    returns,        \* retrieval operations that have returned or raised
    outcome,        \* what the network gave for the last request
    ret,            \* the last operation's return value
    exc,            \* the exception that escaped the last call (NoExc: none)
    diag,           \* the line the wrapper printed for the last operation
    stdout,         \* the lines the caller's last step printed (save_json, main)
    files,          \* the file system: path -> [state, text]
    all_my_boards,  \* main's local
    idx,            \* main's position in `for item in all_my_boards`
    board,          \* main's local
    cards           \* main's local

vars == <<module, API_KEY, API_TOKEN, my_trello, pc, retpc, op, sent, completed,
          calls, returns, outcome, ret, exc, diag, stdout, files,
          all_my_boards, idx, board, cards>>

mainLocals == <<all_my_boards, idx, board, cards>>
program == <<module, API_KEY, API_TOKEN>>

Unreturned == [t |-> "unset", v |-> <<>>]
InFlight == Len(sent) - completed

(***************************************************************************)
(* class Trello                                                            *)
(***************************************************************************)
\* f"{x}"
Format(x) == IF x = Unset THEN "None" ELSE x

\* The names class Trello defines.
Methods(m) ==
    IF m = "main"
    THEN {"save_json", "_make_request", "get_all_my_boards", "get_board",
          "get_cards_on_board"}
    ELSE {"save_json", "_make_request", "get_all_my_boards", "get_board_by_id",
          "get_cards_on_board", "create_webhook"}

\* Trello.__init__(api_key, api_token)
Trello(api_key, api_token) ==
    [api_key   |-> api_key,
     api_token |-> api_token,
     BASE_URL  |-> "https://api.trello.com/",
     query     |-> [key |-> Format(API_KEY), token |-> Format(API_TOKEN)],
     headers   |-> [Accept |-> "application/json"]]

Get(url, params, headers) ==
    [method |-> "GET", url |-> url, params |-> params, headers |-> headers]

\* The request action each operation hands to _make_request.
BoardsRequest(self) ==
    Get(<<self.BASE_URL, "1/members/me/boards?fields=name">>, self.query, self.headers)
BoardRequest(self, id_board) ==
    Get(<<self.BASE_URL, "1/boards/", id_board>>, self.query, self.headers)
CardsRequest(self, id_board) ==
    Get(<<self.BASE_URL, "1/boards/", id_board, "/cards">>, self.query, self.headers)

\* Mutant: the action is called a second time.
make_request_twice(log, request) == Append(Append(log, request), request)

\* _make_request: `return request_function()`, the one call of the action.
make_request(log, request) == Append(log, request)

\* Mutant: redirect statuses are taken for errors too.
RaiseForStatusFrom300(status) ==
    IF 300 <= status /\ status < 600 THEN "HTTPError" ELSE NoExc

\* Mutant: only client errors are taken for errors.
RaiseForStatus4xxOnly(status) ==
    IF 400 <= status /\ status < 500 THEN "HTTPError" ELSE NoExc

\* Response.raise_for_status(): HTTPError for 400..599.
RaiseForStatus(status) ==
    IF 400 <= status /\ status < 600 THEN "HTTPError" ELSE NoExc

\* Mutant: the body's text is returned undecoded (response.text).
ResponseText(body) == [exc |-> NoExc, val |-> PyStr("<text>")]

\* Response.json()
ResponseJson(body) ==
    LET j == JsonLoads(body) IN
    IF j.ok THEN [exc |-> NoExc, val |-> j.val]
    ELSE [exc |-> "RequestsJSONDecodeError", val |-> PyNone]

\* Mutant: the first clause catches HTTPError only.
ExceptStatusOnly(e) ==
    IF IsInstance(e, "HTTPError")
    THEN [ret |-> PyNone, diag |-> "Error during request", exc |-> NoExc]
    ELSE IF IsInstance(e, "JSONDecodeError")
    THEN [ret |-> PyNone, diag |-> "Error decoding JSON.", exc |-> NoExc]
    ELSE [ret |-> Unreturned, diag |-> "", exc |-> e]

\* The wrapper's except clauses, in order.
Except(e) ==
    IF IsInstance(e, "RequestException")
    THEN [ret |-> PyNone, diag |-> "Error during request", exc |-> NoExc]
    ELSE IF IsInstance(e, "JSONDecodeError")
    THEN [ret |-> PyNone, diag |-> "Error decoding JSON.", exc |-> NoExc]
    ELSE [ret |-> Unreturned, diag |-> "", exc |-> e]

\* The wrapper's try block, on what the request action gave.
TryBlock(o) ==
    IF o.kind = "fault" THEN [ret |-> Unreturned, diag |-> "", exc |-> o.exc]
    ELSE LET e == RaiseForStatus(o.status) IN
         IF e # NoExc THEN [ret |-> Unreturned, diag |-> "", exc |-> e]
         ELSE LET j == ResponseJson(o.body) IN
              IF j.exc # NoExc THEN [ret |-> Unreturned, diag |-> "", exc |-> j.exc]
              ELSE [ret |-> j.val, diag |-> "Request successful.", exc |-> NoExc]

\* manage_request's wrapper, from the action's outcome to the return.
wrapper(o) ==
    LET r == TryBlock(o) IN
    IF r.exc # NoExc THEN Except(r.exc) ELSE r

\* Trello.save_json(data, path) on file system fs in state fsState.
save_json(fs, data, path, fsState) ==
    LET put(content) == [p \in DOMAIN fs \cup {path} |->
                            IF p = path THEN content ELSE fs[p]]
        partial == [state |-> "partial", text |-> <<>>]
    IN  IF \E i \in 1..Len(path) : path[i] = Nul
        THEN [files |-> fs, out |-> <<>>, exc |-> "ValueError"]
        ELSE IF fsState = "denied"
        THEN [files |-> fs, out |-> <<"Error saving file">>, exc |-> NoExc]
        ELSE IF ~Serialisable(data)
        THEN [files |-> put(partial), out |-> <<>>, exc |-> "TypeError"]
        ELSE IF ~Utf8Encodable(JsonDumps(data))
        THEN [files |-> put(partial), out |-> <<>>, exc |-> "UnicodeEncodeError"]
        ELSE IF fsState = "full"
        THEN [files |-> put(partial), out |-> <<"Error saving file">>, exc |-> NoExc]
        ELSE [files |-> put([state |-> "complete", text |-> JsonDumps(data)]),
              out |-> <<>>, exc |-> NoExc]

(***************************************************************************)
(* The state machine.                                                      *)
(***************************************************************************)
Init ==
    /\ module \in Modules
    /\ \E e \in Environments : API_KEY = e.key /\ API_TOKEN = e.token
    /\ my_trello = <<>>
    /\ pc = "init"
    /\ retpc = "init"
    /\ op = [name |-> "", id |-> ""]
    /\ sent = <<>>
    /\ completed = 0
    /\ calls = 0
    /\ returns = 0
    /\ outcome = NoOutcome
    /\ ret = Unreturned
    /\ exc = NoExc
    /\ diag = ""
    /\ stdout = <<>>
    /\ files = <<>>
    /\ all_my_boards = Unreturned
    /\ idx = 0
    /\ board = Unreturned
    /\ cards = Unreturned

\* A retrieval operation is called: the wrapper calls _make_request, which
\* calls the request action, and the caller blocks on the network.
Invoke(name, id, request, continue) ==
    /\ pc' = "wait"
    /\ retpc' = continue
    /\ op' = [name |-> name, id |-> id]
    /\ sent' = make_request(sent, request)
    /\ calls' = calls + 1
    /\ outcome' = NoOutcome
    /\ ret' = Unreturned
    /\ exc' = NoExc
    /\ diag' = ""
    /\ UNCHANGED <<completed, returns>>

\* The request action comes back (a response or a fault) and the wrapper runs
\* to its return.
Respond(o) ==
    /\ pc = "wait"
    /\ InFlight > 0
    /\ LET r == wrapper(o) IN
       /\ ret' = r.ret
       /\ diag' = r.diag
       /\ exc' = r.exc
       /\ pc' = IF r.exc = NoExc THEN retpc ELSE
                IF retpc = "user" THEN "user" ELSE "crashed"
    /\ outcome' = o
    /\ completed' = completed + 1
    /\ returns' = returns + 1
    /\ UNCHANGED <<program, my_trello, retpc, op, sent, calls, stdout, files, mainLocals>>

\* A caller of the class (as src/src/test.py) constructs a client.
UserConstruct(c) ==
    /\ pc = "init"
    /\ my_trello' = <<Trello(c.key, c.token)>>
    /\ pc' = "user"
    /\ UNCHANGED <<program, retpc, op, sent, completed, calls, returns, outcome,
                   ret, exc, diag, stdout, files, mainLocals>>

UserGetAllMyBoards ==
    /\ pc = "user"
    /\ calls < MaxCalls
    /\ Invoke("get_all_my_boards", "", BoardsRequest(my_trello[1]), "user")
    /\ UNCHANGED <<program, my_trello, stdout, files, mainLocals>>

\* get_board (main.py), get_board_by_id (Trello.py)
UserGetBoard(id_board) ==
    /\ pc = "user"
    /\ calls < MaxCalls
    /\ Invoke(IF module = "main" THEN "get_board" ELSE "get_board_by_id", id_board,
              BoardRequest(my_trello[1], id_board), "user")
    /\ UNCHANGED <<program, my_trello, stdout, files, mainLocals>>

UserGetCardsOnBoard(id_board) ==
    /\ pc = "user"
    /\ calls < MaxCalls
    /\ Invoke("get_cards_on_board", id_board, CardsRequest(my_trello[1], id_board), "user")
    /\ UNCHANGED <<program, my_trello, stdout, files, mainLocals>>

UserSaveJson(data, path, fsState) ==
    /\ pc = "user"
    /\ LET r == save_json(files, data, path, fsState) IN
       /\ files' = r.files
       /\ stdout' = r.out
       /\ exc' = r.exc
    /\ op' = [name |-> "save_json", id |-> ""]
    /\ UNCHANGED <<program, my_trello, pc, retpc, sent, completed, calls, returns,
                   outcome, ret, diag, mainLocals>>

\* for item in x
PyIter(x) ==
    CASE x.t = "list" -> [exc |-> NoExc, items |-> x.v]
      [] x.t = "dict" -> [exc |-> NoExc,
                          items |-> [i \in 1..Len(x.v) |-> PyStr(x.v[i].key)]]
      [] x.t = "str"  -> [exc |-> NoExc, items |-> IF x.v = "" THEN <<>> ELSE <<x>>]
      [] OTHER        -> [exc |-> "TypeError", items |-> <<>>]

\* item["id"]
GetId(item) ==
    IF item.t # "dict" THEN [exc |-> "TypeError", val |-> PyNone]
    ELSE IF \E i \in 1..Len(item.v) : item.v[i].key = "id"
    THEN [exc |-> NoExc,
          val |-> item.v[CHOOSE i \in 1..Len(item.v) : item.v[i].key = "id"].val]
    ELSE [exc |-> "KeyError", val |-> PyNone]

\* f"{x}" of a Python value
PyFormat(x) == IF x.t = "str" THEN x.v ELSE "<repr>"

BoardsPath == <<"../json/get_all_my_boards.json">>
BoardPath(id) == <<"../json/board_", id, ".json">>
CardsPath(id) == <<"../json/cards_", id, ".json">>

\* main(): construct the client and ask for the boards.
MainStart ==
    /\ pc = "init"
    /\ my_trello' = <<Trello(API_KEY, API_TOKEN)>>
    /\ Invoke("get_all_my_boards", "", BoardsRequest(my_trello'[1]), "m_boards")
    /\ UNCHANGED <<program, stdout, files, mainLocals>>

\* main(): `if all_my_boards:` and the save of the list, up to the loop.
\* The wrapper's locals are gone once the caller has taken the return value.
Forget ==
    /\ outcome' = NoOutcome
    /\ ret' = Unreturned
    /\ diag' = ""

MainBoards(fsState) ==
    /\ pc = "m_boards"
    /\ Truthy(ret) \/ fsState = "ok"      \* the file system is consulted only to save
    /\ all_my_boards' = ret
    /\ IF Truthy(ret)
       THEN LET r == save_json(files, ret, BoardsPath, fsState) IN
            /\ files' = r.files
            /\ stdout' = r.out
            /\ exc' = r.exc
            /\ pc' = IF r.exc # NoExc THEN "crashed" ELSE "m_loop"
            /\ idx' = 1
       ELSE /\ stdout' = <<"get_all_my_boards request failed.">>
            /\ pc' = "done"
            /\ UNCHANGED <<files, exc, idx>>
    /\ Forget
    /\ UNCHANGED <<program, my_trello, retpc, op, sent, completed, calls, returns,
                   board, cards>>

\* main(): the head of `for item in all_my_boards` and the call of get_board.
MainLoop ==
    /\ pc = "m_loop"
    /\ LET it == PyIter(all_my_boards)
           id == GetId(it.items[idx])
       IN  IF it.exc # NoExc
           THEN /\ pc' = "crashed"
                /\ exc' = it.exc
                /\ UNCHANGED <<retpc, op, sent, calls, outcome, ret, diag, completed, returns>>
           ELSE IF idx > Len(it.items)
           THEN /\ pc' = "done"
                /\ UNCHANGED <<retpc, op, sent, calls, outcome, ret, diag, exc, completed,
                               returns>>
           ELSE IF "get_board" \notin Methods(module)
           THEN /\ pc' = "crashed"
                /\ exc' = "AttributeError"
                /\ UNCHANGED <<retpc, op, sent, calls, outcome, ret, diag, completed, returns>>
           ELSE IF id.exc # NoExc
           THEN /\ pc' = "crashed"
                /\ exc' = id.exc
                /\ UNCHANGED <<retpc, op, sent, calls, outcome, ret, diag, completed, returns>>
           ELSE Invoke("get_board", PyFormat(id.val),
                       BoardRequest(my_trello[1], PyFormat(id.val)), "m_board")
    /\ stdout' = <<>>
    /\ UNCHANGED <<program, my_trello, files, mainLocals>>

\* main(): board is back; the call of get_cards_on_board.
MainBoard ==
    /\ pc = "m_board"
    /\ board' = ret
    /\ LET id == PyFormat(GetId(PyIter(all_my_boards).items[idx]).val) IN
       Invoke("get_cards_on_board", id, CardsRequest(my_trello[1], id), "m_cards")
    /\ UNCHANGED <<program, my_trello, stdout, files, all_my_boards, idx, cards>>

\* main(): cards are back; `if board:` and `if cards:`, then the next item.
MainCards(fsBoard, fsCards) ==
    /\ pc = "m_cards"
    /\ Truthy(board) \/ fsBoard = "ok"    \* the file system is consulted only to save
    /\ Truthy(ret) \/ fsCards = "ok"
    /\ cards' = ret
    /\ LET id == PyFormat(GetId(PyIter(all_my_boards).items[idx]).val)
           b  == IF Truthy(board)
                 THEN save_json(files, board, BoardPath(id), fsBoard)
                 ELSE [files |-> files, out |-> <<"get_board request failed.">>,
                       exc |-> NoExc]
           c  == IF b.exc # NoExc THEN b
                 ELSE IF Truthy(ret)
                 THEN save_json(b.files, ret, CardsPath(id), fsCards)
                 ELSE [files |-> b.files, out |-> <<"get_cards_on_board request failed.">>,
                       exc |-> NoExc]
       IN  /\ files' = c.files
           /\ stdout' = IF b.exc # NoExc THEN b.out ELSE b.out \o c.out
           /\ exc' = c.exc
           /\ pc' = IF c.exc # NoExc THEN "crashed" ELSE "m_loop"
    /\ idx' = idx + 1
    /\ Forget
    /\ UNCHANGED <<program, my_trello, retpc, op, sent, completed, calls, returns,
                   all_my_boards, board>>

Next ==
    \/ \E c \in Credentials : UserConstruct(c)
    \/ UserGetAllMyBoards
    \/ \E id \in BoardIds : UserGetBoard(id)
    \/ \E id \in BoardIds : UserGetCardsOnBoard(id)
    \/ \E d \in UserData, p \in UserPaths, s \in FsStates : UserSaveJson(d, p, s)
    \/ \E o \in Outcomes : Respond(o)

Spec == Init /\ [][Next]_vars

NextMain ==
    \/ MainStart
    \/ \E o \in Outcomes : Respond(o)
    \/ \E s \in FsStates : MainBoards(s)
    \/ MainLoop
    \/ MainBoard
    \/ \E s1 \in FsStates, s2 \in FsStates : MainCards(s1, s2)

SpecMain == Init /\ [][NextMain]_vars


(***************************************************************************)
(* Properties.                                                             *)
(***************************************************************************)
RetrievalOps == {"get_all_my_boards", "get_board", "get_board_by_id", "get_cards_on_board"}
IsJson(x) == x.t \in {"None", "bool", "str", "list", "dict"}

\* The last call was a retrieval operation, and it has come back.
Back == outcome # NoOutcome /\ pc # "wait" /\ op.name \in RetrievalOps
Decoded == JsonLoads(outcome.body)
Has(line, lines) == \E i \in 1..Len(lines) : lines[i] = line

\* C1: whatever the request action gives (a fault, any status, any body), a
\* retrieval operation comes back with the decoded body or None: no raw
\* response, no exception.
C1_ReturnsJsonOrNone ==
    Back =>
        /\ exc = NoExc
        /\ IsJson(ret)
        /\ ret = PyNone \/ (outcome.kind = "response" /\ Decoded.ok /\ ret = Decoded.val)

C1_Witness ==
    /\ Back
    /\ op.name = "get_cards_on_board"
    /\ outcome.kind = "fault"
    /\ ret = PyNone
    /\ exc = NoExc

\* C2: a response with status < 400 whose body is the JSON text of a value x
\* makes the operation return exactly x.
C2_ReturnsParsedBody ==
    \A x \in RemoteValues :
        (Back /\ outcome.kind = "response" /\ outcome.status < 400
              /\ outcome.body = JsonDumps(x))
        => (ret = x /\ exc = NoExc)

C2_Witness ==
    /\ Back
    /\ op.name = "get_all_my_boards"
    /\ outcome.kind = "response"
    /\ outcome.status = 200
    /\ outcome.body = JsonDumps(BoardsList(1))
    /\ ret = BoardsList(1)

\* C3 as stated: every response with status >= 400 makes the operation return
\* None, whatever the body.
C3_ErrorStatusReturnsNone ==
    (Back /\ outcome.kind = "response" /\ outcome.status >= 400) => ret = PyNone

\* C3 amended: every response with a status in 400..599 makes the operation
\* return None, whatever the body, and nothing is raised.
C3_Status400To599ReturnsNone ==
    (Back /\ outcome.kind = "response" /\ outcome.status >= 400 /\ outcome.status < 600)
    => (ret = PyNone /\ exc = NoExc)

C3_Witness ==
    /\ Back
    /\ op.name \in {"get_board", "get_board_by_id"}
    /\ outcome.kind = "response"
    /\ outcome.status = 404
    /\ outcome.body = JsonDumps(Board("b1", "Demo"))
    /\ ret = PyNone

\* C4: a response with status < 400 whose body is not JSON makes the operation
\* return None; nothing is raised and nothing half decoded comes back.
C4_MalformedBodyReturnsNone ==
    (Back /\ outcome.kind = "response" /\ outcome.status < 400 /\ ~Decoded.ok)
    => (ret = PyNone /\ exc = NoExc)

C4_Witness ==
    /\ Back
    /\ outcome.kind = "response"
    /\ outcome.status = 200
    /\ outcome.body = <<Tok("["), Tok("{")>>
    /\ ret = PyNone

\* C5: a failing invocation prints the diagnostic of its failure class: a
\* network fault or an error status prints "Error during request", a body that
\* does not decode prints "Error decoding JSON.", and never the other one.
C5_DiagnosticKind ==
    Back =>
        /\ (outcome.kind = "fault" \/ RaiseForStatus(outcome.status) # NoExc)
               => diag = "Error during request"
        /\ (outcome.kind = "response" /\ RaiseForStatus(outcome.status) = NoExc
               /\ ~Decoded.ok)
               => diag = "Error decoding JSON."

\* C6: every invocation of a retrieval operation calls the request action
\* exactly once, whether it succeeds or fails, and an operation has returned
\* before the next request goes out: at most one request is in flight.
C6_OneRequestPerInvocation ==
    /\ Len(sent) = calls
    /\ InFlight \in {0, 1}
    /\ returns = completed
    /\ calls = returns + InFlight
    /\ (pc = "wait") <=> (InFlight = 1)

C6_Witness ==
    /\ calls = 2
    /\ returns = 2
    /\ Len(sent) = 2
    /\ outcome.kind = "fault"
    /\ ret = PyNone

\* C7: every request a client issues carries the key and the token its
\* constructor was given.
C7_RequestsCarryConstructorCredentials ==
    \A i \in 1..Len(sent) :
        /\ sent[i].params.key = Format(my_trello[1].api_key)
        /\ sent[i].params.token = Format(my_trello[1].api_token)

\* C8: save_json never raises: whatever the data and the path, a failure to
\* open, serialise or write is caught inside it.
C8_SaveJsonNeverRaises ==
    (op.name = "save_json") => exc = NoExc

\* C9: main writes a resource's file if and only if the retrieval returned a
\* value other than None (an empty list of cards included), and prints
\* "request failed" only when the retrieval returned None.
C9_SavedIffRetrieved ==
    /\ (pc = "done" /\ Has("get_all_my_boards request failed.", stdout))
           => all_my_boards = PyNone
    /\ (pc = "m_loop" /\ idx > 1) =>
           LET id == PyFormat(GetId(PyIter(all_my_boards).items[idx - 1]).val) IN
           /\ Has("get_board request failed.", stdout) <=> board = PyNone
           /\ Has("get_cards_on_board request failed.", stdout) <=> cards = PyNone
           /\ (board # PyNone /\ cards # PyNone /\ ~Has("Error saving file", stdout))
                  => {BoardPath(id), CardsPath(id)} \subseteq DOMAIN files

IsBoards(x) ==
    /\ x.t = "list"
    /\ \A i \in 1..Len(x.v) : x.v[i].t = "dict" /\ GetId(x.v[i]).exc = NoExc

RECURSIVE ExpectedRequests(_, _, _)
\* The board and card requests for items i.. of a boards list, in order.
ExpectedRequests(self, items, i) ==
    IF i > Len(items) THEN <<>>
    ELSE LET id == PyFormat(GetId(items[i]).val) IN
         <<BoardRequest(self, id), CardsRequest(self, id)>>
         \o ExpectedRequests(self, items, i + 1)

\* C10: with a boards list of N boards main finishes without an unhandled
\* exception, having issued the boards request and then, board by board in
\* list order, the board request and the card request (1 + 2N requests); with
\* no boards list, it issues nothing more.
C10_DriverCompletes ==
    /\ (pc = "crashed") => ~IsBoards(all_my_boards)
    /\ (pc = "done" /\ IsBoards(all_my_boards) /\ Truthy(all_my_boards)) =>
           sent = <<BoardsRequest(my_trello[1])>>
                  \o ExpectedRequests(my_trello[1], all_my_boards.v, 1)
    /\ (pc = "done" /\ all_my_boards = PyNone) => Len(sent) = 1

====
